---- MODULE Spec2Model ----
(***************************************************************************)
(* Model of migrate.py: the migration of a Unix pass store to a Proton     *)
(* Pass CSV file.                                                          *)
(*                                                                         *)
(* Strings are sequences of one-character strings, so that split, strip,   *)
(* lower, startswith and join are computed character by character as the   *)
(* Python code computes them.  An Optional[str] is <<>> for None and <<s>>  *)
(* for the string s, so that None and the empty string stay distinct.      *)
(*                                                                         *)
(* Three specifications:                                                   *)
(*   SpecClassify  process_pass, one loop iteration per step               *)
(*   Spec          main(): passphrase setup, the walk over the store,      *)
(*                 the summary and the write of the CSV file               *)
(*   SpecWrite     write_pass called directly with an arbitrary path       *)
(***************************************************************************)
EXTENDS Integers, Sequences, FiniteSets, TLC

VARIABLES
    \* process_pass (lines 25-79)
    entry_name, raw_pass_content, cpc, lines, li, password, email, username,
    note_lines, result,
    \* main / process_all_entries (lines 215-263)
    pc, store, idx, processed_pass_rows, processed_files, total_files,
    reads, log, setupCause,
    \* write_pass and the filesystem it acts on (lines 172-188)
    wpc, output_file, dirs, files, umask, created, writeCalls, dirs0, files0

classifyVars == <<entry_name, raw_pass_content, cpc, lines, li, password,
                  email, username, note_lines, result>>
mainVars == <<pc, store, idx, processed_pass_rows, processed_files,
              total_files, reads, log, setupCause>>
fsVars == <<wpc, output_file, dirs, files, umask, created, writeCalls,
            dirs0, files0>>
vars == <<classifyVars, mainVars, fsVars>>

-----------------------------------------------------------------------------
(* Bounds of the model.                                                    *)

\* number of tokens a raw content is made of (SpecClassify)
MaxTok == 5
\* number of files in the password store (Spec)
MaxFiles == 3

-----------------------------------------------------------------------------
(* Optional[str] and characters.                                           *)

None == <<>>
Some(s) == <<s>>

NL == "\n"

\* str.strip() with no argument removes whitespace; the whitespace the model
\* alphabet has is the blank and the newline
IsSpace(c) == c \in {" ", NL, "\t", "\r"}

Uppers == <<"A","B","C","D","E","F","G","H","I","J","K","L","M",
            "N","O","P","Q","R","S","T","U","V","W","X","Y","Z">>
Lowers == <<"a","b","c","d","e","f","g","h","i","j","k","l","m",
            "n","o","p","q","r","s","t","u","v","w","x","y","z">>

LowerChar(c) ==
    IF \E i \in 1..26 : Uppers[i] = c
    THEN Lowers[CHOOSE i \in 1..26 : Uppers[i] = c]
    ELSE c

\* str.lower()
Lower(s) == [i \in 1..Len(s) |-> LowerChar(s[i])]

\* c in s
Contains(s, c) == \E i \in 1..Len(s) : s[i] = c

\* s.startswith(p)
StartsWith(s, p) == Len(s) >= Len(p) /\ SubSeq(s, 1, Len(p)) = p

RECURSIVE LStrip(_)
LStrip(s) ==
    IF s = <<>> THEN <<>>
    ELSE IF IsSpace(Head(s)) THEN LStrip(Tail(s)) ELSE s

RECURSIVE RStrip(_)
RStrip(s) ==
    IF s = <<>> THEN <<>>
    ELSE IF IsSpace(s[Len(s)]) THEN RStrip(SubSeq(s, 1, Len(s) - 1)) ELSE s

\* str.strip()
Strip(s) == RStrip(LStrip(s))

\* index of the first occurrence of c in s, 0 when there is none
RECURSIVE Find(_, _, _)
Find(s, c, i) ==
    IF i > Len(s) THEN 0
    ELSE IF s[i] = c THEN i ELSE Find(s, c, i + 1)

\* s.split(sep): always at least one part
RECURSIVE Split(_, _)
Split(s, sep) ==
    LET k == Find(s, sep, 1) IN
    IF k = 0 THEN <<s>>
    ELSE <<SubSeq(s, 1, k - 1)>> \o Split(SubSeq(s, k + 1, Len(s)), sep)

\* s.split(sep, 1): one part when sep is absent, two otherwise
SplitOnce(s, sep) ==
    LET k == Find(s, sep, 1) IN
    IF k = 0 THEN <<s>>
    ELSE <<SubSeq(s, 1, k - 1), SubSeq(s, k + 1, Len(s))>>

\* sep.join(parts)
RECURSIVE Join(_, _)
Join(parts, sep) ==
    IF parts = <<>> THEN <<>>
    ELSE IF Len(parts) = 1 THEN parts[1]
    ELSE parts[1] \o sep \o Join(Tail(parts), sep)

-----------------------------------------------------------------------------
(* process_pass.                                                           *)

\* ['username:', 'user:', 'login:']
Prefixes == { <<"u","s","e","r","n","a","m","e",":">>,
              <<"u","s","e","r",":">>,
              <<"l","o","g","i","n",":">> }

\* ' | '
NoteSep == <<" ", "|", " ">>

\* the loop's accumulators; err is set when an index is out of range
Acc(e, u, n, x) == [email |-> e, username |-> u, note_lines |-> n, err |-> x]

\* parts[1] in Python's zero-based indexing, IndexError when it is absent
SetFromSecondPart(acc, field, parts) ==
    IF Len(parts) < 2 THEN [acc EXCEPT !.err = TRUE]
    ELSE [acc EXCEPT ![field] = Some(Strip(parts[2]))]

\* the body of the loop over lines[1:], with the check for the user name
\* made before the check for '@'
ProcessLine_UserFirst(acc, rawline) ==
    LET line == Strip(rawline) IN
    IF line = <<>> THEN acc
    ELSE IF \E prefix \in Prefixes : StartsWith(Lower(line), prefix)
    THEN SetFromSecondPart(acc, "username", SplitOnce(line, ":"))
    ELSE IF Contains(line, "@")
    THEN IF Contains(line, ":")
         THEN SetFromSecondPart(acc, "email", SplitOnce(line, ":"))
         ELSE [acc EXCEPT !.email = Some(Strip(line))]
    ELSE [acc EXCEPT !.note_lines = Append(@, line)]

\* the body of the loop, keeping the first email and the first user name
ProcessLine_FirstWins(acc, rawline) ==
    LET line == Strip(rawline) IN
    IF line = <<>> THEN acc
    ELSE IF Contains(line, "@")
    THEN IF acc.email # None THEN acc
         ELSE IF Contains(line, ":")
         THEN SetFromSecondPart(acc, "email", SplitOnce(line, ":"))
         ELSE [acc EXCEPT !.email = Some(Strip(line))]
    ELSE IF \E prefix \in Prefixes : StartsWith(Lower(line), prefix)
    THEN IF acc.username # None THEN acc
         ELSE SetFromSecondPart(acc, "username", SplitOnce(line, ":"))
    ELSE [acc EXCEPT !.note_lines = Append(@, line)]

\* the body of the loop without the skip of blank lines
ProcessLine_KeepBlank(acc, rawline) ==
    LET line == Strip(rawline) IN
    IF Contains(line, "@")
    THEN IF Contains(line, ":")
         THEN SetFromSecondPart(acc, "email", SplitOnce(line, ":"))
         ELSE [acc EXCEPT !.email = Some(Strip(line))]
    ELSE IF \E prefix \in Prefixes : StartsWith(Lower(line), prefix)
    THEN SetFromSecondPart(acc, "username", SplitOnce(line, ":"))
    ELSE [acc EXCEPT !.note_lines = Append(@, line)]

\* the body of the loop, taking the text after the colon of every '@' line
ProcessLine_AlwaysSplit(acc, rawline) ==
    LET line == Strip(rawline) IN
    IF line = <<>> THEN acc
    ELSE IF Contains(line, "@")
    THEN SetFromSecondPart(acc, "email", SplitOnce(line, ":"))
    ELSE IF \E prefix \in Prefixes : StartsWith(Lower(line), prefix)
    THEN SetFromSecondPart(acc, "username", SplitOnce(line, ":"))
    ELSE [acc EXCEPT !.note_lines = Append(@, line)]

\* the body of the loop over lines[1:] (lines 50-68)
ProcessLine(acc, rawline) ==
    LET line == Strip(rawline) IN
    IF line = <<>> THEN acc
    ELSE IF Contains(line, "@")
    THEN IF Contains(line, ":")
         THEN SetFromSecondPart(acc, "email", SplitOnce(line, ":"))
         ELSE [acc EXCEPT !.email = Some(Strip(line))]
    ELSE IF \E prefix \in Prefixes : StartsWith(Lower(line), prefix)
    THEN SetFromSecondPart(acc, "username", SplitOnce(line, ":"))
    ELSE [acc EXCEPT !.note_lines = Append(@, line)]

\* lines[0].strip() without the strip
PasswordOf_NoStrip(ls) == IF ls # <<>> THEN ls[1] ELSE <<>>

\* lines[0].strip() if lines else "" (line 43)
PasswordOf(ls) == IF ls # <<>> THEN Strip(ls[1]) ELSE <<>>

\* ' | '.join(note_lines) if note_lines else None (line 71)
NoteOf(n) == IF n # <<>> THEN Some(Join(n, NoteSep)) ELSE None

\* the PassContent dataclass (lines 14-23); url and totp default to None
PassContent(name, pw, e, u, n) ==
    [name |-> name, password |-> pw, url |-> None, email |-> e,
     username |-> u, note |-> n, totp |-> None]

RECURSIVE LoopFrom(_, _, _)
LoopFrom(ls, i, acc) ==
    IF i > Len(ls) THEN acc ELSE LoopFrom(ls, i + 1, ProcessLine(acc, ls[i]))

\* process_pass as one call, used by process_all_entries
process_pass(name, raw) ==
    IF raw = <<>> THEN PassContent(name, <<>>, None, None, None)
    ELSE LET ls == Split(raw, NL)
             acc == LoopFrom(ls, 2, Acc(None, None, <<>>, FALSE))
         IN PassContent(name, PasswordOf(ls), acc.email, acc.username,
                        NoteOf(acc.note_lines))

NoResult == [name |-> "-"]

\* lines 36-47: the early return on empty content, the split, the password
ClassifyStart ==
    /\ cpc = "start"
    /\ IF raw_pass_content = <<>>
       THEN /\ result' = PassContent(entry_name, <<>>, None, None, None)
            /\ cpc' = "done"
            /\ UNCHANGED <<lines, li, password>>
       ELSE /\ lines' = Split(raw_pass_content, NL)
            /\ password' = PasswordOf(lines')
            /\ li' = 2
            /\ cpc' = "loop"
            /\ UNCHANGED result
    /\ UNCHANGED <<entry_name, raw_pass_content, email, username, note_lines>>
    /\ UNCHANGED <<mainVars, fsVars>>

\* lines 50-68: one iteration of the loop
ClassifyLine ==
    /\ cpc = "loop"
    /\ li <= Len(lines)
    /\ LET acc == ProcessLine(Acc(email, username, note_lines, FALSE), lines[li])
       IN /\ email' = acc.email
          /\ username' = acc.username
          /\ note_lines' = acc.note_lines
          /\ cpc' = IF acc.err THEN "error" ELSE "loop"
    /\ li' = li + 1
    /\ UNCHANGED <<entry_name, raw_pass_content, lines, password, result>>
    /\ UNCHANGED <<mainVars, fsVars>>

\* lines 71-79: the note and the returned record
ClassifyReturn ==
    /\ cpc = "loop"
    /\ li > Len(lines)
    /\ result' = PassContent(entry_name, password, email, username,
                             NoteOf(note_lines))
    /\ cpc' = "done"
    /\ UNCHANGED <<entry_name, raw_pass_content, lines, li, password, email,
                   username, note_lines>>
    /\ UNCHANGED <<mainVars, fsVars>>

\* the pieces raw contents are made of
Tokens == { <<NL>>, <<" ">>, <<"@">>, <<"a">>,
            <<"u","s","e","r",":">>,
            <<"L","o","g","i","n",":">>,
            <<"u","s","e","r","n","a","m","e",":">> }

RECURSIVE TokStrings(_)
TokStrings(k) ==
    IF k = 0 THEN {<<>>}
    ELSE LET prev == TokStrings(k - 1)
         IN prev \cup {p \o t : p \in prev, t \in Tokens}

EntryNames == {"e1"}

MainIdle ==
    /\ pc = "idle" /\ store = <<>> /\ idx = 0
    /\ processed_pass_rows = <<>> /\ processed_files = 0 /\ total_files = 0
    /\ reads = <<>> /\ log = <<>> /\ setupCause = "none"

FsIdle ==
    /\ wpc = "idle" /\ output_file = <<>> /\ dirs = <<>> /\ files = <<>>
    /\ umask = 0 /\ created = {} /\ writeCalls = 0
    /\ dirs0 = <<>> /\ files0 = <<>>

ClassifyIdle ==
    /\ entry_name = "-" /\ raw_pass_content = <<>> /\ cpc = "idle"
    /\ lines = <<>> /\ li = 0 /\ password = <<>> /\ email = None
    /\ username = None /\ note_lines = <<>> /\ result = NoResult

InitClassify ==
    /\ entry_name \in EntryNames
    /\ raw_pass_content \in TokStrings(MaxTok)
    /\ cpc = "start"
    /\ lines = <<>> /\ li = 0 /\ password = <<>>
    /\ email = None /\ username = None /\ note_lines = <<>>
    /\ result = NoResult
    /\ MainIdle /\ FsIdle

NextClassify == ClassifyStart \/ ClassifyLine \/ ClassifyReturn

SpecClassify == InitClassify /\ [][NextClassify]_vars

-----------------------------------------------------------------------------
(* write_pass and the filesystem.                                          *)
(*                                                                         *)
(* A path is the sequence of its components; "" is the empty sequence.     *)
(* dirs maps every existing directory to its permission bits, files maps   *)
(* every existing file to its permission bits and its rows.                *)

\* PASS_STORE and OUTPUT_FILE (lines 9-10)
OUTPUT_FILE == <<"~", ".proton-migrate", "protonpass.csv">>

\* the user's home directory, which exists
Home == <<"home">>

\* mode=0o700 (line 179)
SecureDirMode == 448
\* the mode os.makedirs gives the intermediate directories, 0o777 (line 179)
DefaultDirMode == 511
\* the mode open() creates a file with, 0o666 (line 182)
DefaultFileMode == 438

\* bitwise and of two permission words
RECURSIVE BitAnd(_, _)
BitAnd(a, b) ==
    IF a = 0 \/ b = 0 THEN 0
    ELSE (a % 2) * (b % 2) + 2 * BitAnd(a \div 2, b \div 2)

\* the mode a creation with the requested mode gives under the umask um
Masked(mode, um) == BitAnd(mode, 511 - um)

\* no permission bit for the group or for the others
OwnerOnly(mode) == BitAnd(mode, 63) = 0

\* os.path.expanduser (line 175)
expanduser(path) ==
    IF path # <<>> /\ Head(path) = "~" THEN Home \o Tail(path) ELSE path

\* os.path.dirname (line 176)
dirname(path) == SubSeq(path, 1, Len(path) - 1)

\* os.path.exists (line 178); the empty path does not exist
exists(ds, fl, path) ==
    path # <<>> /\ (path \in DOMAIN ds \/ path \in DOMAIN fl)

\* os.makedirs(name, mode) giving mode to every directory it creates
RECURSIVE makedirs_ModeForAll(_, _, _, _)
makedirs_ModeForAll(ds, name, mode, um) ==
    LET head == dirname(name)
        ds1 == IF head # <<>> /\ head \notin DOMAIN ds
               THEN makedirs_ModeForAll(ds, head, mode, um)
               ELSE ds
    IN (name :> Masked(mode, um)) @@ ds1

\* os.makedirs(name, mode) (line 179): the missing ancestors are created
\* with the default mode, the leaf with mode (Python 3.7 and later; the
\* annotation tuple[...] of line 215 needs Python 3.9)
RECURSIVE makedirs(_, _, _, _)
makedirs(ds, name, mode, um) ==
    LET head == dirname(name)
        ds1 == IF head # <<>> /\ head \notin DOMAIN ds
               THEN makedirs(ds, head, DefaultDirMode, um)
               ELSE ds
    IN (name :> Masked(mode, um)) @@ ds1

\* PROTON_HEADERS (line 12) and the row written for a record (lines 186-188)
CsvRow(r) ==
    [name |-> r.name, url |-> r.url, email |-> r.email,
     username |-> r.username, password |-> r.password, note |-> r.note,
     totp |-> r.totp, vault |-> None]

\* write_pass (lines 172-188).  mkOk and openOk are the environment's
\* answers: whether the directory can be created, whether the file can be
\* opened for writing.  raised is TRUE when an OSError leaves write_pass.
write_pass(path, rows, ds, fl, um, mkOk, openOk) ==
    LET expanded_output_file == expanduser(path)
        output_dir == dirname(expanded_output_file)
        missing == ~exists(ds, fl, output_dir)
        mkRaises == missing /\ (output_dir = <<>> \/ ~mkOk)
        ds1 == IF missing /\ ~mkRaises
               THEN makedirs(ds, output_dir, SecureDirMode, um)
               ELSE ds
        openRaises == ~openOk \/ output_dir \in DOMAIN fl
        fmode == IF expanded_output_file \in DOMAIN fl
                 THEN fl[expanded_output_file].mode
                 ELSE Masked(DefaultFileMode, um)
    IN IF mkRaises THEN [dirs |-> ds, files |-> fl, raised |-> TRUE]
       ELSE IF openRaises THEN [dirs |-> ds1, files |-> fl, raised |-> TRUE]
       ELSE [dirs |-> ds1,
             files |-> (expanded_output_file :>
                          [mode |-> fmode,
                           rows |-> [i \in 1..Len(rows) |-> CsvRow(rows[i])]])
                       @@ fl,
             raised |-> FALSE]

\* the directories a call has created
NewDirs(before, after) ==
    {[dir |-> d, mode |-> after[d]] : d \in DOMAIN after \ DOMAIN before}

-----------------------------------------------------------------------------
(* read_pass and setup_gpg_agent_passphrase.                               *)

Return(v) == [kind |-> "return", value |-> v]
Raise == [kind |-> "raise", value |-> None]

\* what the command `pass entry_name` can do
PassOutcomes == {"ok", "nonzero", "timeout", "oserror"}

\* read_pass without the handler for TimeoutExpired
read_pass_TimeoutEscapes(outcome, stdout) ==
    IF outcome = "ok" THEN Return(Some(Strip(stdout)))
    ELSE IF outcome = "timeout" THEN Raise
    ELSE Return(None)

\* read_pass (lines 143-170): None on a non-zero exit, on a timeout and on
\* a SubprocessError or OSError, the stripped standard output otherwise.
\* The `tty` command of lines 146-148 runs outside the try with check=False;
\* it is taken to start, its exit status and output do not reach the result.
read_pass(outcome, stdout) ==
    IF outcome = "ok" THEN Return(Some(Strip(stdout)))
    ELSE Return(None)

\* truth value of an Optional[str]: None and "" are false
Truthy(v) == v # None /\ v[1] # <<>>

\* setup_gpg_agent_passphrase (lines 81-141).
\*   gpgconf   "ok", "nonzero" (CalledProcessError) or "notfound" (the
\*             command cannot be started: FileNotFoundError, an OSError)
\*   fallback  whether one of the common paths exists
\*   helper    "ok", "nonzero" or "notfound" for gpg-preset-passphrase
\* Only SubprocessError is caught at line 139; OSError is not one.
setup_gpg_agent_passphrase(passphrase, gpgconf, fallback, helper) ==
    IF passphrase = <<>> THEN Return(FALSE)
    ELSE IF gpgconf = "notfound" THEN Raise
    ELSE IF gpgconf = "nonzero" /\ ~fallback THEN Return(FALSE)
    ELSE IF helper = "notfound" THEN Raise
    ELSE IF helper = "nonzero" THEN Return(FALSE)
    ELSE Return(TRUE)

\* which of the ways to fail the environment presented
SetupCauseOf(passphrase, gpgconf, fallback, helper) ==
    IF passphrase = <<>> THEN "no_passphrase"
    ELSE IF gpgconf = "notfound" THEN "gpgconf_not_started"
    ELSE IF gpgconf = "nonzero" /\ ~fallback THEN "helper_not_located"
    ELSE IF helper = "notfound" THEN "helper_not_started"
    ELSE IF helper = "nonzero" THEN "helper_nonzero"
    ELSE "none"

-----------------------------------------------------------------------------
(* main and process_all_entries.                                           *)

Msg(m, a, b) == [msg |-> m, a |-> a, b |-> b]

\* file.endswith(".gpg") (lines 210 and 225)
GpgSuffix == <<".", "g", "p", "g">>
EndsWith(s, suf) ==
    Len(s) >= Len(suf) /\ SubSeq(s, Len(s) - Len(suf) + 1, Len(s)) = suf

\* os.path.relpath(path, pass_store_path)[:-4] (lines 228-229)
EntryNameOf(file) == SubSeq(file, 1, Len(file) - 4)

\* count_gpg_files (lines 205-212)
RECURSIVE count_gpg_files(_)
count_gpg_files(fs) ==
    IF fs = <<>> THEN 0
    ELSE (IF EndsWith(Head(fs), GpgSuffix) THEN 1 ELSE 0)
         + count_gpg_files(Tail(fs))

\* setup_gpg_passphrase (lines 191-202) as main calls it at line 246.
\* envPass is GPG_PASSPHRASE, typed what getpass returns when it is asked.
SetupGpgPassphrase ==
    /\ pc = "setup"
    /\ \E envPass \in {<<>>, <<"s">>}, typed \in {<<>>, <<"s">>},
          gpgconf \in {"ok", "nonzero", "notfound"}, fallback \in BOOLEAN,
          helper \in {"ok", "nonzero", "notfound"} :
          LET passphrase == IF envPass # <<>> THEN envPass ELSE typed
              r == setup_gpg_agent_passphrase(passphrase, gpgconf, fallback,
                                              helper)
          IN /\ setupCause' = SetupCauseOf(passphrase, gpgconf, fallback,
                                           helper)
             /\ IF passphrase = <<>>
                THEN pc' = "count" /\ log' = log
                ELSE IF r.kind = "raise"
                THEN pc' = "crashed_setup" /\ log' = log
                ELSE /\ pc' = "count"
                     /\ log' = Append(log,
                                  IF r.value THEN Msg("setup successful", 0, 0)
                                  ELSE Msg("setup failed", 0, 0))
    /\ UNCHANGED <<store, idx, processed_pass_rows, processed_files,
                   total_files, reads>>
    /\ UNCHANGED <<classifyVars, fsVars>>

\* lines 217-221: the counters and the count of the entries
CountGpgFiles ==
    /\ pc = "count"
    /\ processed_pass_rows' = <<>>
    /\ processed_files' = 0
    /\ total_files' = count_gpg_files(store)
    /\ log' = Append(log, Msg("found", total_files', 0))
    /\ idx' = 1
    /\ pc' = "walk"
    /\ UNCHANGED <<store, reads, setupCause>>
    /\ UNCHANGED <<classifyVars, fsVars>>

\* lines 225-226: a file that is no .gpg file is passed over
SkipFile ==
    /\ pc = "walk"
    /\ idx <= Len(store)
    /\ ~EndsWith(store[idx], GpgSuffix)
    /\ idx' = idx + 1
    /\ UNCHANGED <<pc, store, processed_pass_rows, processed_files,
                   total_files, reads, log, setupCause>>
    /\ UNCHANGED <<classifyVars, fsVars>>

\* the standard outputs the command `pass` is given in the model
Stdouts == { <<>>, <<" ", NL>>, <<"p", NL>>,
             <<"p", NL, "a", "@", NL, ":">> }

\* lines 228-239: one entry is read and, when it has content, classified
ProcessEntry ==
    /\ pc = "walk"
    /\ idx <= Len(store)
    /\ EndsWith(store[idx], GpgSuffix)
    /\ \E outcome \in PassOutcomes, stdout \in Stdouts :
          LET name == EntryNameOf(store[idx])
              r == read_pass(outcome, stdout)
              raw == r.value
          IN /\ reads' = Append(reads, [entry |-> name, outcome |-> outcome])
             /\ IF r.kind = "raise"
                THEN /\ pc' = "crashed_read"
                     /\ UNCHANGED <<idx, processed_pass_rows, processed_files,
                                    log>>
                ELSE /\ pc' = pc
                     /\ idx' = idx + 1
                     /\ IF Truthy(raw)
                        THEN /\ processed_pass_rows' =
                                   Append(processed_pass_rows,
                                          process_pass(name, raw[1]))
                             /\ processed_files' = processed_files + 1
                             /\ log' = log
                        ELSE /\ log' = Append(log, Msg("failed to read", idx, 0))
                             /\ UNCHANGED <<processed_pass_rows,
                                            processed_files>>
    /\ UNCHANGED <<store, total_files, setupCause>>
    /\ UNCHANGED <<classifyVars, fsVars>>

\* lines 241 and 254-256: process_all_entries returns, main prints the summary
PrintSummary ==
    /\ pc = "walk"
    /\ idx > Len(store)
    /\ log' = Append(log, Msg("summary", processed_files, total_files))
    /\ pc' = "decide"
    /\ UNCHANGED <<store, idx, processed_pass_rows, processed_files,
                   total_files, reads, setupCause>>
    /\ UNCHANGED <<classifyVars, fsVars>>

\* main writing the file whether or not there is a record
WriteOutput_Always ==
    /\ pc = "decide"
    /\ \E mkOk \in BOOLEAN, openOk \in BOOLEAN :
          LET w == write_pass(OUTPUT_FILE, processed_pass_rows, dirs, files,
                              umask, mkOk, openOk)
          IN /\ dirs' = w.dirs
             /\ files' = w.files
             /\ created' = created \cup NewDirs(dirs, w.dirs)
             /\ writeCalls' = writeCalls + 1
             /\ IF w.raised
                THEN pc' = "crashed_write" /\ log' = log
                ELSE /\ pc' = "done"
                     /\ log' = Append(log, Msg("written",
                                               Len(processed_pass_rows), 0))
    /\ UNCHANGED <<wpc, output_file, umask, dirs0, files0>>
    /\ UNCHANGED <<store, idx, processed_pass_rows, processed_files,
                   total_files, reads, setupCause>>
    /\ UNCHANGED classifyVars

\* lines 258-261: at least one record, write_pass is called
WriteOutput ==
    /\ pc = "decide"
    /\ processed_pass_rows # <<>>
    /\ \E mkOk \in BOOLEAN, openOk \in BOOLEAN :
          LET w == write_pass(OUTPUT_FILE, processed_pass_rows, dirs, files,
                              umask, mkOk, openOk)
          IN /\ dirs' = w.dirs
             /\ files' = w.files
             /\ created' = created \cup NewDirs(dirs, w.dirs)
             /\ writeCalls' = writeCalls + 1
             /\ IF w.raised
                THEN pc' = "crashed_write" /\ log' = log
                ELSE /\ pc' = "done"
                     /\ log' = Append(log, Msg("written",
                                               Len(processed_pass_rows), 0))
    /\ UNCHANGED <<wpc, output_file, umask, dirs0, files0>>
    /\ UNCHANGED <<store, idx, processed_pass_rows, processed_files,
                   total_files, reads, setupCause>>
    /\ UNCHANGED classifyVars

\* lines 262-263: no record, nothing is written
ReportNothing ==
    /\ pc = "decide"
    /\ processed_pass_rows = <<>>
    /\ log' = Append(log, Msg("nothing written", 0, 0))
    /\ pc' = "done"
    /\ UNCHANGED <<store, idx, processed_pass_rows, processed_files,
                   total_files, reads, setupCause>>
    /\ UNCHANGED <<classifyVars, fsVars>>

\* the names of the files of a store: two entries, one of them in a
\* subdirectory, the store's .gpg-id file and a third entry
FileNames == { <<"a", ".", "g", "p", "g">>,
               <<"d", "/", "b", ".", "g", "p", "g">>,
               <<".", "g", "p", "g", "-", "i", "d">>,
               <<"c", ".", "g", "p", "g">> }

\* the walks of a store: every file once, in the order os.walk yields them
RECURSIVE Walks(_)
Walks(k) ==
    IF k = 0 THEN {<<>>}
    ELSE LET prev == Walks(k - 1)
         IN prev \cup {Append(w, f) : w \in {v \in prev : Len(v) = k - 1},
                                      f \in FileNames}

Distinct(w) == \A i, j \in 1..Len(w) : i # j => w[i] # w[j]

\* the permission bits a directory found on the disk may have
FoundModes == {448, 493, 509}
\* the umasks of the model: 0o022 and 0o077
Umasks == {18, 63}

OutDir == dirname(expanduser(OUTPUT_FILE))

Init ==
    /\ ClassifyIdle
    /\ pc = "setup"
    /\ store \in {w \in Walks(MaxFiles) : Distinct(w)}
    /\ idx = 0 /\ processed_pass_rows = <<>> /\ processed_files = 0
    /\ total_files = 0 /\ reads = <<>> /\ log = <<>> /\ setupCause = "none"
    /\ wpc = "idle"
    /\ output_file = OUTPUT_FILE
    /\ umask \in Umasks
    /\ dirs \in {(Home :> 493)} \cup
                {(OutDir :> m) @@ (Home :> 493) : m \in FoundModes}
    /\ files = <<>>
    /\ created = {} /\ writeCalls = 0
    /\ dirs0 = dirs /\ files0 = files

Next ==
    \/ SetupGpgPassphrase
    \/ CountGpgFiles
    \/ SkipFile
    \/ ProcessEntry
    \/ PrintSummary
    \/ WriteOutput
    \/ ReportNothing

Spec == Init /\ [][Next]_vars

-----------------------------------------------------------------------------
(* write_pass called on its own, as tests/test-migrate.py calls it, with    *)
(* any path and any state of the directories on it.                        *)

\* number of directory components of the output path (SpecWrite)
MaxDepth == 2

DirChain(k) == [i \in 1..k |-> "d"]

OutPaths == {pre \o DirChain(k) \o <<"out.csv">> :
                pre \in {<<>>, <<"~">>}, k \in 0..MaxDepth}

\* the directories on the way to the file, the home directory excluded
Ancestors(path) ==
    LET e == expanduser(path) IN
    {SubSeq(e, 1, n) : n \in 1..(Len(e) - 1)} \ {Home}

\* the states of the disk: the existing ancestors are closed under parent
DiskStates(path) ==
    {ds \in UNION {[S -> FoundModes] : S \in SUBSET Ancestors(path)} :
        \A d \in DOMAIN ds : dirname(d) \in DOMAIN ds \cup {<<>>, Home}}

OneRow == <<PassContent(<<"a">>, <<"p">>, None, None, None)>>

InitWrite ==
    /\ ClassifyIdle /\ MainIdle
    /\ wpc = "call"
    /\ output_file \in OutPaths
    /\ umask \in Umasks
    /\ dirs \in {ds @@ (Home :> 493) : ds \in DiskStates(output_file)}
    /\ files \in {<<>>} \cup
         (IF dirname(expanduser(output_file)) \in DOMAIN dirs
          THEN {(expanduser(output_file) :> [mode |-> 420, rows |-> <<>>])}
          ELSE {})
    /\ created = {} /\ writeCalls = 0
    /\ dirs0 = dirs /\ files0 = files

\* one call of write_pass (lines 172-188)
WritePass ==
    /\ wpc = "call"
    /\ \E mkOk \in BOOLEAN, openOk \in BOOLEAN :
          LET w == write_pass(output_file, OneRow, dirs, files, umask, mkOk,
                              openOk)
          IN /\ dirs' = w.dirs
             /\ files' = w.files
             /\ created' = created \cup NewDirs(dirs, w.dirs)
             /\ writeCalls' = writeCalls + 1
             /\ wpc' = IF w.raised THEN "raised" ELSE "written"
    /\ UNCHANGED <<output_file, umask, dirs0, files0>>
    /\ UNCHANGED <<classifyVars, mainVars>>

NextWrite == WritePass

SpecWrite == InitWrite /\ [][NextWrite]_vars

-----------------------------------------------------------------------------
(* What the record should hold, stated on the positions of the newlines of  *)
(* the raw content rather than by the loop.                                *)

NLIdx(s) == {i \in 1..Len(s) : s[i] = NL}

NumLines(s) == Cardinality(NLIdx(s)) + 1

\* position of the j-th newline; 0 before the first line, Len+1 after the last
Boundary(s, j) ==
    IF j = 0 THEN 0
    ELSE IF j > Cardinality(NLIdx(s)) THEN Len(s) + 1
    ELSE CHOOSE a \in NLIdx(s) : Cardinality({i \in NLIdx(s) : i <= a}) = j

\* the k-th line: the text between the (k-1)-th and the k-th newline
LineAt(s, k) == SubSeq(s, Boundary(s, k - 1) + 1, Boundary(s, k) - 1)

\* s without its leading and trailing whitespace
Trimmed(s) ==
    LET keep == {i \in 1..Len(s) : ~IsSpace(s[i])} IN
    IF keep = {} THEN <<>>
    ELSE SubSeq(s, CHOOSE i \in keep : \A j \in keep : i <= j,
                   CHOOSE i \in keep : \A j \in keep : i >= j)

Chars(s) == {s[i] : i \in 1..Len(s)}

AfterFirstColon(s) ==
    LET cs == {i \in 1..Len(s) : s[i] = ":"} IN
    SubSeq(s, (CHOOSE i \in cs : \A j \in cs : i <= j) + 1, Len(s))

HasUserPrefix(s) ==
    \E p \in Prefixes :
        /\ Len(s) >= Len(p)
        /\ \A i \in 1..Len(p) : LowerChar(s[i]) = p[i]

IsEmailLine(l) == "@" \in Chars(l)
IsUserLine(l) == ~IsEmailLine(l) /\ HasUserPrefix(Trimmed(l))
IsNoteLine(l) == Trimmed(l) # <<>> /\ ~IsEmailLine(l) /\ ~IsUserLine(l)

EmailFrom(l) ==
    IF ":" \in Chars(l) THEN Trimmed(AfterFirstColon(Trimmed(l)))
    ELSE Trimmed(l)

UserFrom(l) == Trimmed(AfterFirstColon(Trimmed(l)))

MaxOf(S) == CHOOSE i \in S : \A j \in S : i >= j

EmailLines(s) == {k \in 2..NumLines(s) : IsEmailLine(LineAt(s, k))}
UserLines(s) == {k \in 2..NumLines(s) : IsUserLine(LineAt(s, k))}
NoteLines(s) == {k \in 2..NumLines(s) : IsNoteLine(LineAt(s, k))}

ExpectedEmail(s) ==
    LET ks == EmailLines(s) IN
    IF ks = {} THEN None ELSE Some(EmailFrom(LineAt(s, MaxOf(ks))))

ExpectedUsername(s) ==
    LET ks == UserLines(s) IN
    IF ks = {} THEN None ELSE Some(UserFrom(LineAt(s, MaxOf(ks))))

\* the fragments of the lines ks from line k on, a separator between two
RECURSIVE NoteFrom(_, _, _)
NoteFrom(s, ks, k) ==
    IF \A m \in ks : m < k THEN <<>>
    ELSE IF k \in ks
    THEN Trimmed(LineAt(s, k))
         \o (IF \E m \in ks : m > k THEN NoteSep ELSE <<>>)
         \o NoteFrom(s, ks, k + 1)
    ELSE NoteFrom(s, ks, k + 1)

ExpectedNote(s) ==
    LET ks == NoteLines(s) IN
    IF ks = {} THEN None ELSE Some(NoteFrom(s, ks, 2))

\* the line the loop is about to consume
AtLine == cpc = "loop" /\ li <= Len(lines)

-----------------------------------------------------------------------------
(* Claims about process_pass, checked under SpecClassify.                  *)

\* C1: the returned password is the text before the first newline of the raw
\* content, trimmed, whatever the later lines hold; for an empty raw content
\* the password is empty and email, username, note, url and totp are unset.
C1_PasswordIsFirstLine ==
    cpc = "done" =>
        /\ result.name = entry_name
        /\ result.password = Trimmed(LineAt(raw_pass_content, 1))
        /\ raw_pass_content = <<>> =>
              /\ result.password = <<>>
              /\ result.email = None /\ result.username = None
              /\ result.note = None /\ result.url = None
              /\ result.totp = None

\* a raw content whose first line has surrounding blanks and which has later
\* lines has been classified
C1_Witness ==
    /\ cpc = "done"
    /\ NumLines(raw_pass_content) >= 2
    /\ LineAt(raw_pass_content, 1) # Trimmed(LineAt(raw_pass_content, 1))
    /\ result.password # <<>>

\* C2: a non-blank line after the first that contains '@' sets the email,
\* also when it starts with a user-name prefix: to the trimmed text after the
\* first colon when it has a colon, to the whole trimmed line otherwise; it
\* leaves the username and the note fragments as they were.
C2_AtLineIsEmail ==
    [][ (AtLine /\ IsEmailLine(lines[li])) =>
            /\ email' = Some(EmailFrom(lines[li]))
            /\ username' = username
            /\ note_lines' = note_lines
            /\ cpc' = "loop" ]_vars

\* a line with '@' that starts with a user-name prefix has been consumed
C2_Witness ==
    /\ cpc = "loop" /\ li > 2
    /\ IsEmailLine(lines[li - 1])
    /\ HasUserPrefix(Trimmed(lines[li - 1]))
    /\ email = Some(<<"@">>)
    /\ username = None

\* C3: the returned email is the one derived from the last line after the
\* first that contains '@', the returned username the trimmed text after the
\* first colon of the last line without '@' that starts with 'username:',
\* 'user:' or 'login:' in any case; each is unset exactly when there is no
\* such line.
C3_LastMatchWins ==
    cpc = "done" =>
        /\ result.email = ExpectedEmail(raw_pass_content)
        /\ result.username = ExpectedUsername(raw_pass_content)
        /\ (result.email = None) = (EmailLines(raw_pass_content) = {})
        /\ (result.username = None) = (UserLines(raw_pass_content) = {})

\* two user-name lines with different values have been classified, and the
\* value of the second is the one returned
C3_Witness ==
    /\ cpc = "done"
    /\ Cardinality(UserLines(raw_pass_content)) = 2
    /\ \E k \in UserLines(raw_pass_content) :
          Some(UserFrom(LineAt(raw_pass_content, k))) # result.username
    /\ result.username = Some(<<>>)

\* C4: the note is unset or a non-empty string: the ' | '-join, in order, of
\* the trimmed lines after the first that are non-blank and neither email
\* nor username lines; unset exactly when there is none; a blank line gives
\* no fragment and no separator.
C4_NoteIsJoinOfRest ==
    cpc = "done" =>
        /\ result.note = ExpectedNote(raw_pass_content)
        /\ (result.note = None) = (NoteLines(raw_pass_content) = {})
        /\ result.note # None => Len(result.note[1]) > 0

\* two note lines with a blank line between them have been joined
C4_Witness ==
    /\ cpc = "done"
    /\ NoteLines(raw_pass_content) = {2, 4}
    /\ Trimmed(LineAt(raw_pass_content, 3)) = <<>>
    /\ result.note = Some(<<"a">> \o NoteSep \o <<"a">>)

\* C10: process_pass never reaches an error; every non-blank line after the
\* first has exactly one of the three effects set-email, set-username and
\* append-note-fragment; url and totp are unset in every returned record.
C10_TotalOneOutcomePerLine ==
    /\ [](cpc # "error")
    /\ [](cpc = "done" => result.url = None /\ result.totp = None)
    /\ [][ (AtLine /\ Trimmed(lines[li]) # <<>>) =>
            \/ /\ IsEmailLine(lines[li])
               /\ email' = Some(EmailFrom(lines[li]))
               /\ UNCHANGED <<username, note_lines>>
            \/ /\ IsUserLine(lines[li])
               /\ username' = Some(UserFrom(lines[li]))
               /\ UNCHANGED <<email, note_lines>>
            \/ /\ IsNoteLine(lines[li])
               /\ note_lines' = Append(note_lines, Trimmed(lines[li]))
               /\ UNCHANGED <<email, username>> ]_vars
    /\ [][ (AtLine /\ Trimmed(lines[li]) = <<>>) =>
            UNCHANGED <<email, username, note_lines>> ]_vars

\* a line that is only a user-name prefix and an '@' line without a colon
\* have both been consumed and the record returned
C10_Witness ==
    /\ cpc = "done"
    /\ result.username = Some(<<>>)
    /\ result.email = Some(<<"@">>)
    /\ \E k \in EmailLines(raw_pass_content) :
          ":" \notin Chars(LineAt(raw_pass_content, k))

-----------------------------------------------------------------------------
(* Claims about main and process_all_entries, checked under Spec.          *)

\* the entries of the store in the order of the walk
RECURSIVE EntriesOf(_)
EntriesOf(fs) ==
    IF fs = <<>> THEN <<>>
    ELSE (IF EndsWith(Head(fs), GpgSuffix)
          THEN <<SubSeq(Head(fs), 1, Len(Head(fs)) - 4)>> ELSE <<>>)
         \o EntriesOf(Tail(fs))

\* the reads whose command exited with status zero within the timeout
SuccessfulReads == {i \in 1..Len(reads) : reads[i].outcome = "ok"}

WalkOver == pc \in {"decide", "done", "crashed_write"}

SummaryLogged(k, t) == \E i \in 1..Len(log) : log[i] = Msg("summary", k, t)

\* C5: with K of the T enumerated entries read successfully (the command
\* exits with status zero, the trimmed output possibly empty), exactly K
\* records are produced and the summary reports K/T; the processed counter
\* always equals the number of records and never exceeds T.
C5_RecordsEqualSuccessfulReads ==
    /\ pc \in {"walk", "decide", "done", "crashed_write"} =>
          /\ processed_files = Len(processed_pass_rows)
          /\ processed_files <= Len(EntriesOf(store))
    /\ WalkOver =>
          /\ Len(processed_pass_rows) = Cardinality(SuccessfulReads)
          /\ SummaryLogged(Cardinality(SuccessfulReads), Len(EntriesOf(store)))

\* C6: a failing decryption command never aborts the run: the entry gives
\* no record and is not read again, the entries are read once each in the
\* order of the walk, all of them by the end of the walk, and the records
\* are in that order with at most one record per entry.
C6_UnreadableEntrySkipped ==
    LET entries == EntriesOf(store)
        names == [i \in 1..Len(processed_pass_rows) |->
                     processed_pass_rows[i].name]
    IN /\ pc # "crashed_read"
       /\ Len(reads) <= Len(entries)
       /\ \A i \in 1..Len(reads) : reads[i].entry = entries[i]
       /\ WalkOver => Len(reads) = Len(entries)
       /\ \A i \in 1..Len(reads) :
             reads[i].outcome # "ok" =>
                \A j \in 1..Len(names) : names[j] # reads[i].entry
       /\ \E f \in [1..Len(names) -> 1..Len(reads)] :
             /\ \A i \in 1..Len(names) : names[i] = reads[f[i]].entry
             /\ \A i, j \in 1..Len(names) : i < j => f[i] < f[j]

\* a timeout, then a process-level error, then a successful read that gave
\* the run's only record
C6_Witness ==
    /\ pc = "done"
    /\ Len(reads) = 3
    /\ reads[1].outcome = "timeout"
    /\ reads[2].outcome = "oserror"
    /\ reads[3].outcome = "ok"
    /\ Len(processed_pass_rows) = 1
    /\ processed_pass_rows[1].name = reads[3].entry

\* C7: write_pass is called at most once, only after the walk is over, and
\* exactly when there is at least one record; with no record the disk is as
\* it was and "nothing written" is reported; the summary is reported in
\* both cases, also when the write fails.
C7_WriteOnceAfterWalkIffRecords ==
    /\ writeCalls <= 1
    /\ writeCalls = 1 =>
          /\ pc \in {"done", "crashed_write"}
          /\ idx > Len(store)
          /\ Len(reads) = Len(EntriesOf(store))
          /\ processed_pass_rows # <<>>
    /\ writeCalls = 0 => dirs = dirs0 /\ files = files0
    /\ pc \in {"done", "crashed_write"} =>
          /\ (writeCalls = 1) = (processed_pass_rows # <<>>)
          /\ SummaryLogged(processed_files, total_files)
    /\ (pc = "done" /\ processed_pass_rows = <<>>) =>
          /\ \E i \in 1..Len(log) : log[i] = Msg("nothing written", 0, 0)
          /\ \A i \in 1..Len(log) : log[i].msg # "written"
    /\ pc = "crashed_write" =>
          \A i \in 1..Len(log) : log[i].msg # "written"

\* the write has failed after the summary of a run with records was printed
C7_Witness ==
    /\ pc = "crashed_write"
    /\ writeCalls = 1
    /\ processed_pass_rows # <<>>
    /\ SummaryLogged(Len(processed_pass_rows), total_files)
    /\ files = files0

\* the ways the environment makes the pre-caching of the passphrase fail
SetupFailed ==
    setupCause \in {"gpgconf_not_started", "helper_not_located",
                    "helper_not_started", "helper_nonzero"}

\* C9: whenever gpgconf or gpg-preset-passphrase cannot be located, cannot
\* be started or exits non-zero, the setup returns a failure value instead
\* of raising, the warning is logged and main goes on to the entries.
C9_SetupNeverFatal ==
    /\ pc # "crashed_setup"
    /\ (pc # "setup" /\ SetupFailed) =>
          \E i \in 1..Len(log) : log[i] = Msg("setup failed", 0, 0)

-----------------------------------------------------------------------------
(* Claim about write_pass, checked under SpecWrite.                        *)

\* C8: every missing parent directory is created with mode 0700 before the
\* file is opened, and the file is written only inside a directory without
\* permission bits for the group or the others, whatever the path and the
\* prior state of the disk.
C8_WrittenOnlyInOwnerOnlyDir ==
    /\ \A c \in created : c.mode = SecureDirMode
    /\ wpc = "written" =>
          /\ expanduser(output_file) \in DOMAIN files
          /\ OwnerOnly(dirs[dirname(expanduser(output_file))])

====
